---- MODULE Spec2Model ----
(***************************************************************************)
(* Model of the SolidWorks support agent core (src/src/agent.py), its      *)
(* completion provider adapter (src/src/perplexity_helper.py), the form    *)
(* service client (src/src/dtx_helper.py) and the Streamlit script         *)
(* (src/src/streamlit_ui.py).                                              *)
(*                                                                         *)
(* Text is modelled as a sequence of one-character strings, so that        *)
(* str.lower() and the substring test `x in y` are computed as Python      *)
(* computes them.  A character outside ASCII is written "U+XXXX".          *)
(* Time is the value datetime.now() returns, counted in ticks.             *)
(***************************************************************************)
EXTENDS Integers, Sequences, FiniteSets, TLC

VARIABLES
    sessions,        \* SolidWorksAgentCore.sessions: dict session_id -> ChatSession
    model,           \* PerplexityHelper.model
    available_models, \* PerplexityHelper.available_models, a list object
    now,             \* the value datetime.now() returns
    stdoutEncoding,  \* encoding of sys.stdout, which print() writes to
    last,            \* the most recent call on the agent and what it returned
    pc,              \* per thread: where its process_message call stands
    frame,           \* per thread: the locals of its process_message call
    calls,           \* the number of process_message calls the threads have made
    arguments,       \* the arguments a function of the adapter is applied to
    returned,        \* what that function returned
    login_token,     \* DtxHelper.login_token
    tenant_token,    \* DtxHelper.tenant_token
    clock,           \* the value datetime.now() returns to DtxHelper, in hours
    wire,            \* the requests the running DtxHelper call has posted, in order
    outcome,         \* the most recent call on the DtxHelper and how it ended
    session_state,   \* st.session_state of one browser session
    script           \* where the current run of the Streamlit script stands

agentVars == <<sessions, model, available_models, now, stdoutEncoding, last>>
threadVars == <<pc, frame, calls>>
adapterVars == <<arguments, returned>>
dtxVars == <<login_token, tenant_token, clock, wire, outcome>>
uiVars == <<session_state, script>>
vars == <<agentVars, threadVars, adapterVars, dtxVars, uiVars>>

\* ------------------------------------------------------------------ bounds
MaxTime == 1
MaxMessages == 4
MaxCalls == 2
MaxClock == 3

\* ------------------------------------------------------- literal constants
context_indicators ==
    << <<"n", "e", "e", "d", " ", "m", "o", "r", "e", " ", "i", "n", "f", "o", "r", "m", "a", "t", "i", "o", "n">>,
    <<"c", "a", "n", " ", "y", "o", "u", " ", "p", "r", "o", "v", "i", "d", "e">>,
    <<"p", "l", "e", "a", "s", "e", " ", "s", "p", "e", "c", "i", "f", "y">>,
    <<"w", "h", "a", "t", " ", "v", "e", "r", "s", "i", "o", "n">>,
    <<"w", "h", "i", "c", "h", " ", "v", "e", "r", "s", "i", "o", "n">>,
    <<"c", "a", "n", " ", "y", "o", "u", " ", "t", "e", "l", "l", " ", "m", "e", " ", "m", "o", "r", "e">>,
    <<"m", "o", "r", "e", " ", "d", "e", "t", "a", "i", "l", "s">>,
    <<"s", "p", "e", "c", "i", "f", "i", "c", " ", "e", "r", "r", "o", "r">>,
    <<"e", "x", "a", "c", "t", "l", "y", " ", "w", "h", "e", "n">>,
    <<"w", "h", "a", "t", " ", "e", "x", "a", "c", "t", "l", "y">>,
    <<"c", "o", "u", "l", "d", " ", "y", "o", "u", " ", "c", "l", "a", "r", "i", "f", "y">>,
    <<"a", "d", "d", "i", "t", "i", "o", "n", "a", "l", " ", "i", "n", "f", "o", "r", "m", "a", "t", "i", "o", "n">>,
    <<"h", "e", "l", "p", " ", "m", "e", " ", "u", "n", "d", "e", "r", "s", "t", "a", "n", "d">> >>

\* the vague terms, had "how to" not been one of them
vague_indicators_failures ==
    << <<"c", "r", "a", "s", "h", "e", "s">>,
    <<"d", "o", "e", "s", "n", "'", "t", " ", "w", "o", "r", "k">>,
    <<"w", "o", "n", "'", "t", " ", "s", "t", "a", "r", "t">>,
    <<"h", "a", "v", "i", "n", "g", " ", "i", "s", "s", "u", "e", "s">>,
    <<"p", "r", "o", "b", "l", "e", "m", "s", " ", "w", "i", "t", "h">>,
    <<"n", "o", "t", " ", "w", "o", "r", "k", "i", "n", "g">>,
    <<"b", "r", "o", "k", "e", "n">>,
    <<"e", "r", "r", "o", "r">>,
    <<"w", "o", "n", "'", "t", " ", "o", "p", "e", "n">>,
    <<"f", "r", "e", "e", "z", "e", "s">>,
    <<"s", "l", "o", "w">>,
    <<"h", "e", "l", "p", " ", "w", "i", "t", "h">>,
    <<"f", "i", "x">>,
    <<"s", "o", "l", "v", "e">> >>

vague_indicators ==
    << <<"c", "r", "a", "s", "h", "e", "s">>,
    <<"d", "o", "e", "s", "n", "'", "t", " ", "w", "o", "r", "k">>,
    <<"w", "o", "n", "'", "t", " ", "s", "t", "a", "r", "t">>,
    <<"h", "a", "v", "i", "n", "g", " ", "i", "s", "s", "u", "e", "s">>,
    <<"p", "r", "o", "b", "l", "e", "m", "s", " ", "w", "i", "t", "h">>,
    <<"n", "o", "t", " ", "w", "o", "r", "k", "i", "n", "g">>,
    <<"b", "r", "o", "k", "e", "n">>,
    <<"e", "r", "r", "o", "r">>,
    <<"w", "o", "n", "'", "t", " ", "o", "p", "e", "n">>,
    <<"f", "r", "e", "e", "z", "e", "s">>,
    <<"s", "l", "o", "w">>,
    <<"h", "o", "w", " ", "t", "o">>,
    <<"h", "e", "l", "p", " ", "w", "i", "t", "h">>,
    <<"f", "i", "x">>,
    <<"s", "o", "l", "v", "e">> >>

specific_indicators ==
    << <<"v", "e", "r", "s", "i", "o", "n">>,
    <<"e", "r", "r", "o", "r", " ", "m", "e", "s", "s", "a", "g", "e">>,
    <<"w", "h", "e", "n", " ", "i">>,
    <<"s", "t", "e", "p", "s">>,
    <<"a", "f", "t", "e", "r">>,
    <<"d", "u", "r", "i", "n", "g">>,
    <<"w", "h", "i", "l", "e">>,
    <<"a", "s", "s", "e", "m", "b", "l", "y">>,
    <<"p", "a", "r", "t">>,
    <<"d", "r", "a", "w", "i", "n", "g">>,
    <<"s", "i", "m", "u", "l", "a", "t", "i", "o", "n">>,
    <<"s", "p", "e", "c", "i", "f", "i", "c">> >>

failure_words ==
    << <<"c", "r", "a", "s", "h">>,
    <<"e", "r", "r", "o", "r">>,
    <<"p", "r", "o", "b", "l", "e", "m">>,
    <<"i", "s", "s", "u", "e">> >>

howto_words ==
    << <<"h", "o", "w", " ", "t", "o">>,
    <<"t", "u", "t", "o", "r", "i", "a", "l">>,
    <<"g", "u", "i", "d", "e">>,
    <<"s", "t", "e", "p", "s">> >>

ContextInstruction ==
    <<" ", "-", " ", "B", "e", "f", "o", "r", "e", " ", "p", "r", "o", "v", "i", "d", "i", "n", "g", " ", "s", "o", "l", "u", "t", "i", "o", "n", ",", " ", "a", "s", "k", " ", "f", "o", "r", " ", "s", "p", "e", "c", "i", "f", "i", "c", " ", "c", "o", "n", "t", "e", "x", "t", ":", " ", "S", "o", "l", "i", "d", "W", "o", "r", "k", "s", " ", "v", "e", "r", "s", "i", "o", "n", ",", " ", "e", "x", "a", "c", "t", " ", "e", "r", "r", "o", "r", " ", "m", "e", "s", "s", "a", "g", "e", "s", ",", " ", "s", "p", "e", "c", "i", "f", "i", "c", " ", "s", "t", "e", "p", "s", " ", "t", "h", "a", "t", " ", "c", "a", "u", "s", "e", " ", "t", "h", "e", " ", "i", "s", "s", "u", "e", ",", " ", "a", "n", "d", " ", "s", "y", "s", "t", "e", "m", " ", "d", "e", "t", "a", "i", "l", "s", " ", "i", "f", " ", "r", "e", "l", "e", "v", "a", "n", "t", ".", " ", "T", "h", "e", "n", " ", "p", "r", "o", "v", "i", "d", "e", " ", "c", "o", "m", "p", "r", "e", "h", "e", "n", "s", "i", "v", "e", " ", "s", "o", "l", "u", "t", "i", "o", "n", " ", "w", "i", "t", "h", " ", "o", "f", "f", "i", "c", "i", "a", "l", " ", "s", "o", "u", "r", "c", "e", "s", " ", "a", "n", "d", " ", "d", "o", "c", "u", "m", "e", "n", "t", "a", "t", "i", "o", "n", " ", "l", "i", "n", "k", "s", ".">>

TroubleshootingInstruction ==
    <<" ", "t", "r", "o", "u", "b", "l", "e", "s", "h", "o", "o", "t", "i", "n", "g", " ", "s", "o", "l", "u", "t", "i", "o", "n", " ", "w", "i", "t", "h", " ", "o", "f", "f", "i", "c", "i", "a", "l", " ", "S", "o", "l", "i", "d", "W", "o", "r", "k", "s", " ", "d", "o", "c", "u", "m", "e", "n", "t", "a", "t", "i", "o", "n", " ", "s", "o", "u", "r", "c", "e", "s", " ", "a", "n", "d", " ", "f", "o", "r", "u", "m", "s">>

StepByStepInstruction ==
    <<" ", "s", "t", "e", "p", "-", "b", "y", "-", "s", "t", "e", "p", " ", "p", "r", "o", "c", "e", "d", "u", "r", "e", " ", "w", "i", "t", "h", " ", "o", "f", "f", "i", "c", "i", "a", "l", " ", "S", "o", "l", "i", "d", "W", "o", "r", "k", "s", " ", "h", "e", "l", "p", " ", "d", "o", "c", "u", "m", "e", "n", "t", "a", "t", "i", "o", "n">>

GenericInstruction ==
    <<" ", "w", "i", "t", "h", " ", "o", "f", "f", "i", "c", "i", "a", "l", " ", "S", "o", "l", "i", "d", "W", "o", "r", "k", "s", " ", "d", "o", "c", "u", "m", "e", "n", "t", "a", "t", "i", "o", "n", " ", "a", "n", "d", " ", "c", "o", "m", "m", "u", "n", "i", "t", "y", " ", "s", "o", "u", "r", "c", "e", "s">>

SystemPromptText ==
    <<"Y", "o", "u", " ", "a", "r", "e", " ", "a", " ", "S", "o", "l", "i", "d", "W", "o", "r", "k", "s", " ", "t", "e", "c", "h", "n", "i", "c", "a", "l", " ", "e", "x", "p", "e", "r", "t", ".", " ", "F", "o", "l", "l", "o", "w", " ", "t", "h", "e", "s", "e", " ", "r", "e", "s", "p", "o", "n", "s", "e", " ", "g", "u", "i", "d", "e", "l", "i", "n", "e", "s", ":">>

InvalidKeyText ==
    <<"U+274C", " ", "I", "n", "v", "a", "l", "i", "d", " ", "A", "P", "I", " ", "k", "e", "y", ".", " ", "P", "l", "e", "a", "s", "e", " ", "c", "h", "e", "c", "k", " ", "y", "o", "u", "r", " ", "P", "e", "r", "p", "l", "e", "x", "i", "t", "y", " ", "A", "P", "I", " ", "k", "e", "y", ".">>

RateLimitText ==
    <<"U+274C", " ", "R", "a", "t", "e", " ", "l", "i", "m", "i", "t", " ", "e", "x", "c", "e", "e", "d", "e", "d", ".", " ", "P", "l", "e", "a", "s", "e", " ", "w", "a", "i", "t", " ", "a", " ", "m", "o", "m", "e", "n", "t", " ", "a", "n", "d", " ", "t", "r", "y", " ", "a", "g", "a", "i", "n", ".">>

ErrorMark ==
    <<"U+274C", " ">>

NetworkErrorPrefix ==
    <<"U+274C", " ", "N", "e", "t", "w", "o", "r", "k", " ", "e", "r", "r", "o", "r", ":", " ">>

InvalidFormatPrefix ==
    <<"U+274C", " ", "I", "n", "v", "a", "l", "i", "d", " ", "A", "P", "I", " ", "r", "e", "s", "p", "o", "n", "s", "e", " ", "f", "o", "r", "m", "a", "t", ":", " ">>

UnexpectedErrorPrefix ==
    <<"U+274C", " ", "U", "n", "e", "x", "p", "e", "c", "t", "e", "d", " ", "e", "r", "r", "o", "r", ":", " ">>

ProcessingErrorPrefix ==
    <<"A", "n", " ", "e", "r", "r", "o", "r", " ", "o", "c", "c", "u", "r", "r", "e", "d", " ", "w", "h", "i", "l", "e", " ", "p", "r", "o", "c", "e", "s", "s", "i", "n", "g", " ", "y", "o", "u", "r", " ", "r", "e", "q", "u", "e", "s", "t", ":", " ">>

InAssemblyError ==
    <<"A", "s", "s", "e", "m", "b", "l", "y", " ", "e", "r", "r", "o", "r">>

InTutorial ==
    <<"w", "e", "l", "d", "m", "e", "n", "t", " ", "t", "u", "t", "o", "r", "i", "a", "l">>

InHello ==
    <<"h", "e", "l", "l", "o">>

InHowTo ==
    <<"h", "o", "w", " ", "t", "o", " ", "c", "r", "e", "a", "t", "e", " ", "a", " ", "w", "e", "l", "d", "m", "e", "n", "t">>

InHowToPart ==
    <<"H", "o", "w", " ", "t", "o", " ", "m", "i", "r", "r", "o", "r", " ", "a", " ", "p", "a", "r", "t">>

InCrashes ==
    <<"i", "t", " ", "c", "r", "a", "s", "h", "e", "s">>






OutWhichVersion ==
    <<"W", "h", "i", "c", "h", " ", "v", "e", "r", "s", "i", "o", "n", " ", "a", "r", "e", " ", "y", "o", "u", " ", "u", "s", "i", "n", "g", "?">>

OutCheck ==
    <<"D", "o", "n", "e", " ", "U+2713">>

MsgJsonDecode ==
    <<"E", "x", "p", "e", "c", "t", "i", "n", "g", " ", "v", "a", "l", "u", "e", ":", " ", "l", "i", "n", "e", " ", "1", " ", "c", "o", "l", "u", "m", "n", " ", "1", " ", "(", "c", "h", "a", "r", " ", "0", ")">>

MsgKeyChoices ==
    <<"'", "c", "h", "o", "i", "c", "e", "s", "'">>

MsgIndex ==
    <<"l", "i", "s", "t", " ", "i", "n", "d", "e", "x", " ", "o", "u", "t", " ", "o", "f", " ", "r", "a", "n", "g", "e">>

MsgConnection ==
    <<"C", "o", "n", "n", "e", "c", "t", "i", "o", "n", " ", "r", "e", "f", "u", "s", "e", "d">>

MsgEncode ==
    <<"'", "a", "s", "c", "i", "i", "'", " ", "c", "o", "d", "e", "c", " ", "c", "a", "n", "'", "t", " ", "e", "n", "c", "o", "d", "e", " ", "c", "h", "a", "r", "a", "c", "t", "e", "r">>

PayloadText ==
    <<"{", "'", "e", "r", "r", "o", "r", "'", ":", " ", "'", "i", "n", "t", "e", "r", "n", "a", "l", "'", "}">>

\* ------------------------------------------------------------------ inputs
SessionIds == {"s1", "s2"}
UserInputs == {InCrashes}
ProviderTexts == {OutWhichVersion, OutCheck}
ModelNames == {"sonar-pro", "sonar", "gpt-4"}
StdoutEncodings == {"utf-8", "ascii"}

\* The outcomes of the one HTTP exchange of requests.post: a response with a
\* status and a body, or no response at all.
Completion(t) == [kind |-> "response", status |-> 200, body |-> "completion", content |-> t]
NoChoices == [kind |-> "response", status |-> 200, body |-> "no_choices", content |-> <<>>]
EmptyChoices == [kind |-> "response", status |-> 200, body |-> "empty_choices", content |-> <<>>]
NotJson200 == [kind |-> "response", status |-> 200, body |-> "not_json", content |-> <<>>]
Status401 == [kind |-> "response", status |-> 401, body |-> "json", content |-> PayloadText]
Status429 == [kind |-> "response", status |-> 429, body |-> "json", content |-> PayloadText]
Status500 == [kind |-> "response", status |-> 500, body |-> "json", content |-> PayloadText]
Status500NotJson == [kind |-> "response", status |-> 500, body |-> "not_json", content |-> <<>>]
NoHttpResponse == [kind |-> "no_response", status |-> 0, body |-> "none", content |-> <<>>]

HttpOutcomes ==
    {Completion(t) : t \in ProviderTexts}
    \cup {NoChoices, EmptyChoices, NotJson200, Status401, Status429, Status500, Status500NotJson,
          NoHttpResponse}

\* The outcomes a turn of the agent is run against: every completion, a
\* failure send_query reports and a failure send_query raises
TurnOutcomes == {Completion(t) : t \in ProviderTexts} \cup {Status429, Status500NotJson}

\* -------------------------------------------------------------------- text
UpperChars == <<"A", "B", "C", "D", "E", "F", "G", "H", "I", "J", "K", "L", "M",
                "N", "O", "P", "Q", "R", "S", "T", "U", "V", "W", "X", "Y", "Z">>
LowerChars == <<"a", "b", "c", "d", "e", "f", "g", "h", "i", "j", "k", "l", "m",
                "n", "o", "p", "q", "r", "s", "t", "u", "v", "w", "x", "y", "z">>

\* the lower-case form of every upper-case letter
LowerMap ==
    [c \in {UpperChars[i] : i \in 1..26} |->
        LowerChars[CHOOSE i \in 1..26 : UpperChars[i] = c]]

\* the upper-case form of every lower-case letter
UpperMap ==
    [c \in {LowerChars[i] : i \in 1..26} |->
        UpperChars[CHOOSE i \in 1..26 : LowerChars[i] = c]]

\* a text as the user types it with the shift lock on
upper(s) == [i \in 1..Len(s) |-> IF s[i] \in DOMAIN UpperMap THEN UpperMap[s[i]] ELSE s[i]]

lower_char(c) == IF c \in DOMAIN LowerMap THEN LowerMap[c] ELSE c

\* str.lower()
lower(s) == [i \in 1..Len(s) |-> lower_char(s[i])]

\* Python's `sub in s` on strings
contains(sub, s) ==
    \E i \in 0..(Len(s) - Len(sub)) : \A j \in 1..Len(sub) : s[i + j] = sub[j]

\* any(x in s for x in list)
any_in(list, s) == \E k \in 1..Len(list) : contains(list[k], s)

\* the characters of the model's texts that the ascii codec cannot encode
NonAsciiChars == {"U+274C", "U+2713"}

encodable(c, encoding) == encoding = "utf-8" \/ c \notin NonAsciiChars

\* datetime.isoformat()
isoformat(t) == [iso |-> t]

\* ------------------------------------------------------------ data classes
\* ChatMessage(role, content, timestamp=datetime.now(), metadata)
ChatMessage(role, content, timestamp, metadata) ==
    [role |-> role, content |-> content, timestamp |-> timestamp, metadata |-> metadata]

\* AgentResponse(content, response_type, processing_time_ms, model_used, metadata)
AgentResponse(content, response_type, processing_time_ms, model_used, metadata) ==
    [content |-> content, response_type |-> response_type,
     processing_time_ms |-> processing_time_ms, model_used |-> model_used,
     metadata |-> metadata]

\* ChatSession(session_id): a new object, both timestamps datetime.now()
ChatSession(session_id, t) ==
    [session_id |-> session_id, messages |-> <<>>,
     created_at |-> t, last_activity |-> t]

\* ChatSession.add_message
\* add_message, had it left last_activity as it was
add_message_silent(session, message, t) ==
    [session EXCEPT !.messages = Append(@, message)]

add_message(session, message, t) ==
    [session EXCEPT !.messages = Append(@, message), !.last_activity = t]

\* ChatSession.get_conversation_history
get_conversation_history(session) ==
    LET keep == SelectSeq(session.messages, LAMBDA msg : msg.role # "system")
    IN  [i \in 1..Len(keep) |-> [role |-> keep[i].role, content |-> keep[i].content]]

\* ChatSession.get_user_message_count
get_user_message_count(session) ==
    Len(SelectSeq(session.messages, LAMBDA msg : msg.role = "user"))

\* ------------------------------------------------------- PerplexityHelper
\* PerplexityHelper(api_key, model): the attributes it sets, and whether it
\* raised ValueError, in which case the caller gets no object
PerplexityHelper(model_name) ==
    [model |-> model_name,
     available_models |-> <<"sonar-pro", "sonar">>,
     raised |-> \A i \in 1..2 : <<"sonar-pro", "sonar">>[i] # model_name]

in_list(x, list) == \E i \in 1..Len(list) : list[i] = x

\* PerplexityHelper._create_system_prompt (the first line of the literal)
create_system_prompt == SystemPromptText

\* _format_user_prompt, had it looked for the terms in the query as typed
format_user_prompt_cased(user_query) ==
    LET is_vague == any_in(vague_indicators, user_query)
        has_specifics == any_in(specific_indicators, user_query)
    IN  IF is_vague /\ ~has_specifics
        THEN user_query \o ContextInstruction
        ELSE IF any_in(failure_words, user_query)
             THEN user_query \o TroubleshootingInstruction
             ELSE IF any_in(howto_words, user_query)
                  THEN user_query \o StepByStepInstruction
                  ELSE user_query \o GenericInstruction

\* PerplexityHelper._format_user_prompt
format_user_prompt(user_query) ==
    LET is_vague == any_in(vague_indicators, lower(user_query))
        has_specifics == any_in(specific_indicators, lower(user_query))
    IN  IF is_vague /\ ~has_specifics
        THEN user_query \o ContextInstruction
        ELSE IF any_in(failure_words, lower(user_query))
             THEN user_query \o TroubleshootingInstruction
             ELSE IF any_in(howto_words, lower(user_query))
                  THEN user_query \o StepByStepInstruction
                  ELSE user_query \o GenericInstruction

\* The message list send_query builds: system prompt, history, formatted query
build_messages(user_query, conversation_history) ==
    <<[role |-> "system", content |-> create_system_prompt]>>
    \o (IF Len(conversation_history) > 0 THEN conversation_history ELSE <<>>)
    \o <<[role |-> "user", content |-> format_user_prompt(user_query)]>>

Exception(type, msg) == [type |-> type, msg |-> msg]
NoException == Exception("none", <<>>)

Returned(text, success) ==
    [raised |-> FALSE, exc |-> NoException, text |-> text, success |-> success]
Raised(exc) ==
    [raised |-> TRUE, exc |-> exc, text |-> <<>>, success |-> FALSE]

\* The except clauses of send_query, for a failure of the HTTP exchange.
\* A failure raised inside an except clause is not caught by its siblings.
send_query_result(http) ==
    IF http.kind = "no_response"
    THEN Returned(NetworkErrorPrefix \o MsgConnection, FALSE)
    ELSE IF http.status \in 200..299
    THEN IF http.body = "completion" THEN Returned(http.content, TRUE)
         ELSE IF http.body = "not_json"
              THEN Returned(NetworkErrorPrefix \o MsgJsonDecode, FALSE)
              ELSE IF http.body = "empty_choices"
              THEN Returned(UnexpectedErrorPrefix \o MsgIndex, FALSE)
              ELSE Returned(InvalidFormatPrefix \o MsgKeyChoices, FALSE)
    ELSE IF http.status = 401 THEN Returned(InvalidKeyText, FALSE)
    ELSE IF http.status = 429 THEN Returned(RateLimitText, FALSE)
    ELSE IF http.body = "json" THEN Returned(ErrorMark \o http.content, FALSE)
    ELSE Raised(Exception("JSONDecodeError", MsgJsonDecode))

\* PerplexityHelper.send_query: the request it sends and what it gives back
send_query(user_query, conversation_history, current_model, http) ==
    [request |-> [model |-> current_model,
                  messages |-> build_messages(user_query, conversation_history)],
     result |-> send_query_result(http)]

\* ---------------------------------------------------- SolidWorksAgentCore
\* _is_context_request, had it searched the response as it came
is_context_request_cased(response) == any_in(context_indicators, response)

\* SolidWorksAgentCore._is_context_request
is_context_request(response) == any_in(context_indicators, lower(response))

\* process_message, "Determine response type"
determine_response_type(is_valid, response_content) ==
    IF ~is_valid THEN "error"
    ELSE IF is_context_request(response_content) THEN "context_request"
    ELSE "success"

\* print(x) raises UnicodeEncodeError when sys.stdout cannot encode a character
print_raises(text, encoding) ==
    \E i \in 1..Len(text) : ~encodable(text[i], encoding)

\* The classes `except Exception` catches
ExceptionClasses == {"JSONDecodeError", "UnicodeEncodeError"}

\* `except KeyError` in place of `except Exception`
caught_KeyError(exc) == exc.type = "KeyError"

caught(exc) == exc.type \in ExceptionClasses

\* ResponseType
ResponseTypes == {"success", "context_request", "error", "validation_error"}

NoResponse == AgentResponse(<<>>, "none", 0, "", [none |-> TRUE])

\* The store after create_session(session_id)
\* create_session, had it started a new dict for the new session
store_create_alone(store, session_id, t) ==
    [x \in {session_id} |-> ChatSession(session_id, t)]

store_create(store, session_id, t) ==
    [x \in DOMAIN store \cup {session_id} |->
        IF x = session_id THEN ChatSession(session_id, t) ELSE store[x]]

\* get_or_create_session, had it created the session whether registered or not
store_create_always(store, session_id, t) == store_create(store, session_id, t)

\* The store after get_or_create_session(session_id)
store_get_or_create(store, session_id, t) ==
    IF session_id \in DOMAIN store THEN store
    ELSE store_create(store, session_id, t)

\* the user message, had it been given the role MessageType.SYSTEM
user_message_system(user_input, start_time, t) ==
    ChatMessage("system", user_input, t, [processed_at |-> isoformat(start_time)])

\* The user message process_message appends
user_message(user_input, start_time, t) ==
    ChatMessage("user", user_input, t, [processed_at |-> isoformat(start_time)])

\* The assistant message, had it been stored under the user's role
assistant_message_as_user(response_content, response_type, agent_response, t) ==
    ChatMessage("user", response_content, t,
                [response_type |-> response_type,
                 processing_time_ms |-> agent_response.processing_time_ms,
                 model_used |-> agent_response.model_used])

\* The assistant message process_message appends
assistant_message(response_content, response_type, agent_response, t) ==
    ChatMessage("assistant", response_content, t,
                [response_type |-> response_type,
                 processing_time_ms |-> agent_response.processing_time_ms,
                 model_used |-> agent_response.model_used])

\* process_message, the branch `if is_valid`: the user message is appended,
\* the response is built and printed, the assistant message is appended.
\* The session object is mutated in place, so `session` of the result is what
\* the store holds when the branch is left, normally or by a raise.
valid_branch(session_id, user_input, session, start_time, t, current_model, response_content, response_type, encoding) ==
    LET processing_time == (t - start_time) * 1000
        s1 == add_message(session, user_message(user_input, start_time, t), t)
        agent_response ==
            AgentResponse(response_content, response_type, processing_time, current_model,
                          [session_id |-> session_id,
                           message_count |-> get_user_message_count(s1)])
        s2 == add_message(s1, assistant_message(response_content, response_type,
                                                agent_response, t), t)
    IN  IF print_raises(agent_response.content, encoding)
        THEN [exc |-> Exception("UnicodeEncodeError", MsgEncode), session |-> s1,
              response |-> NoResponse, response_type |-> response_type]
        ELSE [exc |-> NoException, session |-> s2, response |-> agent_response,
              response_type |-> response_type]

\* the else branch, had the assistant message been appended whatever is_valid
invalid_branch_appending(session_id, session, start_time, t, current_model, response_content, response_type) ==
    LET agent_response ==
            AgentResponse(response_content, response_type, (t - start_time) * 1000,
                          current_model,
                          [session_id |-> session_id,
                           message_count |-> get_user_message_count(session)])
    IN  [exc |-> NoException,
         session |-> add_message(session, assistant_message(response_content, response_type,
                                                            agent_response, t), t),
         response |-> agent_response,
         response_type |-> response_type]

\* process_message, the branch `else`: the response is built, nothing is appended
invalid_branch(session_id, session, start_time, t, current_model, response_content, response_type) ==
    [exc |-> NoException, session |-> session,
     response |-> AgentResponse(response_content, response_type, (t - start_time) * 1000,
                                current_model,
                                [session_id |-> session_id,
                                 message_count |-> get_user_message_count(session)]),
     response_type |-> response_type]

\* The try block of process_message, on the session get_or_create_session gave
try_block(session_id, user_input, session, start_time, t, current_model, http, encoding) ==
    LET q == send_query(user_input, get_conversation_history(session), current_model, http)
        response_content == q.result.text
        is_valid == q.result.success
        response_type == determine_response_type(is_valid, response_content)
    IN  IF q.result.raised
        THEN [exc |-> q.result.exc, session |-> session, response |-> NoResponse,
              response_type |-> "none"]
        ELSE IF is_valid
        THEN valid_branch(session_id, user_input, session, start_time, t, current_model,
                          response_content, response_type, encoding)
        ELSE invalid_branch(session_id, session, start_time, t, current_model,
                            response_content, response_type)

\* The except clause of process_message: print(e), then the error response
except_block(exc, start_time, t, current_model) ==
    AgentResponse(ProcessingErrorPrefix \o exc.msg, "error", (t - start_time) * 1000,
                  current_model, [error |-> exc.msg])

\* What one call of process_message gives: a response and the session, or a
\* failure that leaves the call
process_message_result(session_id, user_input, session, start_time, t, current_model, http, encoding) ==
    LET b == try_block(session_id, user_input, session, start_time, t, current_model, http, encoding)
    IN  IF b.exc = NoException
        THEN [escaped |-> FALSE, response |-> b.response, session |-> b.session]
        ELSE IF caught(b.exc) /\ ~print_raises(b.exc.msg, encoding)
        THEN [escaped |-> FALSE, session |-> b.session,
              response |-> except_block(b.exc, start_time, t, current_model)]
        ELSE [escaped |-> TRUE, response |-> NoResponse, session |-> b.session]

\* ------------------------------------------------------------ observation
NoCall == [made |-> FALSE]
NoSession == [session_id |-> "", messages |-> <<>>, created_at |-> 0, last_activity |-> 0]
lookup(store, session_id) == IF session_id \in DOMAIN store THEN store[session_id] ELSE NoSession
\* What the session registered under sid looked like when the call was made
Pre(sid) ==
    [exists |-> sid \in DOMAIN sessions,
     message_count |-> Len(lookup(sessions, sid).messages)]

Observe(op, sid, arg, ret, call) ==
    last' = [op |-> op, sid |-> sid, arg |-> arg, ret |-> ret, pre |-> Pre(sid), call |-> call]

\* ------------------------------------------------------------------ actions
\* SolidWorksAgentCore(api_key) on a PerplexityHelper with a listed model
AgentInit ==
    /\ sessions = [x \in {} |-> 0]
    /\ \E model_name \in ModelNames :
           LET perplexity == PerplexityHelper(model_name)
           IN  /\ ~perplexity.raised
               /\ model = perplexity.model
               /\ available_models = perplexity.available_models
    /\ now = 0
    /\ stdoutEncoding \in StdoutEncodings
    /\ last = [op |-> "init", sid |-> "", arg |-> "", ret |-> TRUE,
               pre |-> [exists |-> FALSE, message_count |-> 0],
               call |-> NoCall]

\* the threads that call the agent
Threads == {"t1", "t2"}
\* the locals of a thread that is not inside process_message
NoFrame == [entered |-> FALSE]

\* no thread is inside process_message
ThreadsIdle ==
    /\ pc = [t \in Threads |-> "idle"]
    /\ frame = [t \in Threads |-> NoFrame]
    /\ calls = 0

\* no function of the adapter is being applied on its own
NoArguments == [function |-> "none"]
NoReturn == [done |-> FALSE]
AdapterIdle ==
    /\ arguments = NoArguments
    /\ returned = NoReturn

\* Python's None, where a token may stand
None == [kind |-> "None", exp |-> 0]
NoOutcome == [op |-> "init"]

\* DtxHelper(): no token is held
DtxInit ==
    /\ login_token = None
    /\ tenant_token = None
    /\ clock = 0
    /\ wire = <<>>
    /\ outcome = NoOutcome

\* the value of a key st.session_state does not hold; a prompt that was not
\* sent is the empty text
Unset == ""

\* a browser session has opened the page: st.session_state is empty and the
\* first run of the script is about to start
UiIdle ==
    /\ session_state = [session_id |-> Unset, current_session_data |-> NoSession,
                        model_selector |-> Unset, messages |-> <<>>]
    /\ script = [at |-> "main", prompt |-> <<>>, reset |-> FALSE]

Init == AgentInit /\ ThreadsIdle /\ AdapterIdle /\ DtxInit /\ UiIdle

\* datetime.now() moves on
Tick ==
    /\ now < MaxTime
    /\ now' = now + 1
    /\ UNCHANGED <<sessions, model, stdoutEncoding, available_models, last>>
    /\ UNCHANGED <<threadVars, adapterVars, dtxVars, uiVars>>

create_session(session_id) ==
    /\ sessions' = store_create(sessions, session_id, now)
    /\ Observe("create_session", session_id, "", sessions'[session_id], NoCall)
    /\ UNCHANGED <<model, now, stdoutEncoding, available_models>>
    /\ UNCHANGED <<threadVars, adapterVars, dtxVars, uiVars>>

get_or_create_session(session_id) ==
    /\ sessions' = store_get_or_create(sessions, session_id, now)
    /\ Observe("get_or_create_session", session_id, "", sessions'[session_id], NoCall)
    /\ UNCHANGED <<model, now, stdoutEncoding, available_models>>
    /\ UNCHANGED <<threadVars, adapterVars, dtxVars, uiVars>>

\* SolidWorksAgentCore.get_session: dict.get, None on a miss
get_session(session_id) ==
    /\ Observe("get_session", session_id, "", lookup(sessions, session_id), NoCall)
    /\ UNCHANGED <<sessions, model, now, stdoutEncoding, available_models>>
    /\ UNCHANGED <<threadVars, adapterVars, dtxVars, uiVars>>

\* delete_session, had it emptied the whole dict
delete_session_all(session_id) ==
    /\ sessions' = [x \in {} |-> 0]
    /\ Observe("delete_session", session_id, "", session_id \in DOMAIN sessions, NoCall)
    /\ UNCHANGED <<model, now, stdoutEncoding, available_models>>
    /\ UNCHANGED <<threadVars, adapterVars, dtxVars, uiVars>>

delete_session(session_id) ==
    /\ sessions' = [x \in DOMAIN sessions \ {session_id} |-> sessions[x]]
    /\ Observe("delete_session", session_id, "", session_id \in DOMAIN sessions, NoCall)
    /\ UNCHANGED <<model, now, stdoutEncoding, available_models>>
    /\ UNCHANGED <<threadVars, adapterVars, dtxVars, uiVars>>

RECURSIVE sum_lengths(_, _)
sum_lengths(store, ids) ==
    IF ids = {} THEN 0
    ELSE LET x == CHOOSE y \in ids : TRUE
         IN  Len(store[x].messages) + sum_lengths(store, ids \ {x})

\* the number of messages all sessions hold
stored_messages(store) == sum_lengths(store, DOMAIN store)

process_message(session_id, user_input) ==
    \E http \in TurnOutcomes :
        /\ stored_messages(sessions) + 2 <= MaxMessages
        /\ LET start_time == now
               store == store_get_or_create(sessions, session_id, now)
               session == store[session_id]
               t == now
               q == send_query(user_input, get_conversation_history(session), model, http)
               b == try_block(session_id, user_input, session, start_time, t, model, http,
                              stdoutEncoding)
               r == process_message_result(session_id, user_input, session, start_time, t,
                                           model, http, stdoutEncoding)
           IN  /\ sessions' = [store EXCEPT ![session_id] = r.session]
               /\ now' = t
               /\ Observe("process_message", session_id, user_input, r,
                          [made |-> TRUE, http |-> http, request |-> q.request,
                           adapter |-> q.result, session |-> session,
                           start_time |-> start_time, exc |-> b.exc,
                           response_type |-> b.response_type])
               /\ UNCHANGED <<model, stdoutEncoding, available_models>>
               /\ UNCHANGED <<threadVars, adapterVars, dtxVars, uiVars>>

\* clear_session, had it left last_activity as it was
clear_session_stale(session_id) ==
    /\ sessions' = IF session_id \in DOMAIN sessions
                   THEN [sessions EXCEPT ![session_id] = [@ EXCEPT !.messages = <<>>]]
                   ELSE sessions
    /\ Observe("clear_session", session_id, "", session_id \in DOMAIN sessions, NoCall)
    /\ UNCHANGED <<model, now, stdoutEncoding, available_models>>
    /\ UNCHANGED <<threadVars, adapterVars, dtxVars, uiVars>>

clear_session(session_id) ==
    /\ sessions' = IF session_id \in DOMAIN sessions
                   THEN [sessions EXCEPT ![session_id] =
                            [@ EXCEPT !.messages = <<>>, !.last_activity = now]]
                   ELSE sessions
    /\ Observe("clear_session", session_id, "", session_id \in DOMAIN sessions, NoCall)
    /\ UNCHANGED <<model, now, stdoutEncoding, available_models>>
    /\ UNCHANGED <<threadVars, adapterVars, dtxVars, uiVars>>

\* The dict get_session_summary returns
session_summary(session, session_id, t, current_model) ==
    [session_id |-> session_id,
     message_count |-> Len(session.messages),
     user_questions |-> get_user_message_count(session),
     session_duration |-> t - session.created_at,
     created_at |-> isoformat(session.created_at),
     last_activity |-> isoformat(session.last_activity),
     current_model |-> current_model]

NoSummary == [none |-> TRUE]

get_session_summary(session_id) ==
    /\ Observe("get_session_summary", session_id, "",
               IF session_id \in DOMAIN sessions
               THEN session_summary(sessions[session_id], session_id, now, model)
               ELSE NoSummary,
               NoCall)
    /\ UNCHANGED <<sessions, model, now, stdoutEncoding, available_models>>
    /\ UNCHANGED <<threadVars, adapterVars, dtxVars, uiVars>>

\* switch_model, had it installed the name without looking at the list
switch_model_unchecked(new_model) ==
    /\ model' = new_model
    /\ Observe("switch_model", "", new_model, TRUE, NoCall)
    /\ UNCHANGED <<sessions, now, stdoutEncoding, available_models>>
    /\ UNCHANGED <<threadVars, adapterVars, dtxVars, uiVars>>

switch_model(new_model) ==
    /\ model' = IF in_list(new_model, available_models) THEN new_model ELSE model
    /\ Observe("switch_model", "", new_model, in_list(new_model, available_models), NoCall)
    /\ UNCHANGED <<sessions, now, stdoutEncoding, available_models>>
    /\ UNCHANGED <<threadVars, adapterVars, dtxVars, uiVars>>

\* get_available_models, had it returned the list object itself
get_available_models_itself ==
    /\ Observe("get_available_models", "", "",
               [items |-> available_models, object |-> "available_models"], NoCall)
    /\ UNCHANGED <<sessions, model, now, stdoutEncoding, available_models>>
    /\ UNCHANGED <<threadVars, adapterVars, dtxVars, uiVars>>

\* PerplexityHelper.get_available_models: a new list with the same items
get_available_models ==
    /\ Observe("get_available_models", "", "",
               [items |-> available_models, object |-> "copy"], NoCall)
    /\ UNCHANGED <<sessions, model, now, stdoutEncoding, available_models>>
    /\ UNCHANGED <<threadVars, adapterVars, dtxVars, uiVars>>

\* The caller appends a name to the list it was handed.  A Python list is
\* an object: the append reaches PerplexityHelper.available_models exactly
\* when the caller holds that object and not a copy of it.
append_to_returned(name) ==
    /\ last.op = "get_available_models"
    /\ ~in_list(name, last.ret.items)
    /\ last' = [last EXCEPT !.ret.items = Append(@, name)]
    /\ available_models' = IF last.ret.object = "available_models"
                           THEN Append(available_models, name)
                           ELSE available_models
    /\ UNCHANGED <<sessions, model, now, stdoutEncoding>>
    /\ UNCHANGED <<threadVars, adapterVars, dtxVars, uiVars>>

\* the literals of PerplexityHelper.test_connection
TestQuery ==
    <<"S", "o", "l", "i", "d", "W", "o", "r", "k", "s", " ", "l", "a", "t", "e", "s", "t", " ", "v", "e", "r", "s", "i", "o", "n", " ", "f", "e", "a", "t", "u", "r", "e", "s">>

ConnectionSuccessful ==
    <<"U+2705", " ", "C", "o", "n", "n", "e", "c", "t", "i", "o", "n", " ", "s", "u", "c", "c", "e", "s", "s", "f", "u", "l", "!">>

ConnectionFailedPrefix ==
    <<"U+274C", " ", "C", "o", "n", "n", "e", "c", "t", "i", "o", "n", " ", "f", "a", "i", "l", "e", "d", ":", " ">>

\* test_connection, had it looked at success only
test_connection_result_unmarked(http) ==
    LET response == send_query_result(http)
    IN  [queries |-> <<[user_query |-> TestQuery, conversation_history |-> <<>>]>>,
         adapter |-> response,
         ret |-> IF response.raised
                 THEN [message |-> ConnectionFailedPrefix \o response.exc.msg, ok |-> FALSE]
                 ELSE IF response.success
                 THEN [message |-> ConnectionSuccessful, ok |-> TRUE]
                 ELSE [message |-> response.text, ok |-> FALSE]]

\* PerplexityHelper.test_connection: the calls it makes to send_query, what
\* send_query gave back for the exchange http, and the pair it returns
test_connection_result(http) ==
    LET response == send_query_result(http)
    IN  [queries |-> <<[user_query |-> TestQuery, conversation_history |-> <<>>]>>,
         adapter |-> response,
         ret |-> IF response.raised
                 THEN [message |-> ConnectionFailedPrefix \o response.exc.msg, ok |-> FALSE]
                 ELSE IF response.success /\ ~contains(<<"U+274C">>, response.text)
                 THEN [message |-> ConnectionSuccessful, ok |-> TRUE]
                 ELSE [message |-> response.text, ok |-> FALSE]]

\* SolidWorksAgentCore.test_connection, against a completion, a completion
\* whose text holds the failure mark, a reported failure and a raised one
test_connection ==
    \E http \in {Completion(OutCheck), Completion(InvalidKeyText), Status429,
                  Status500NotJson} :
        LET r == test_connection_result(http)
        IN  /\ Observe("test_connection", "", "", r.ret,
                       [made |-> TRUE, http |-> http, queries |-> r.queries,
                        adapter |-> r.adapter])
            /\ UNCHANGED <<sessions, model, now, stdoutEncoding, available_models>>
            /\ UNCHANGED <<threadVars, adapterVars, dtxVars, uiVars>>

get_current_model ==
    /\ Observe("get_current_model", "", "", model, NoCall)
    /\ UNCHANGED <<sessions, model, now, stdoutEncoding, available_models>>
    /\ UNCHANGED <<threadVars, adapterVars, dtxVars, uiVars>>

Next ==
    \/ Tick
    \/ \E session_id \in SessionIds : create_session(session_id)
    \/ \E session_id \in SessionIds : get_or_create_session(session_id)
    \/ \E session_id \in SessionIds : delete_session(session_id)
    \/ \E session_id \in SessionIds, user_input \in UserInputs :
           process_message(session_id, user_input)
    \/ \E session_id \in SessionIds : clear_session(session_id)
    \/ \E session_id \in SessionIds : get_session_summary(session_id)
    \/ \E new_model \in ModelNames : switch_model(new_model)
    \/ get_current_model

Spec == Init /\ [][Next]_vars

\* The lookups, the removals and the operations on the adapter that the agent
\* passes through, on the sessions that turns have built, with the clock
\* standing still
FacadeNext ==
    \/ \E session_id \in SessionIds : create_session(session_id)
    \/ \E session_id \in SessionIds, user_input \in UserInputs :
           process_message(session_id, user_input)
    \/ \E session_id \in SessionIds : get_session(session_id)
    \/ \E session_id \in SessionIds : get_session_summary(session_id)
    \/ \E session_id \in SessionIds : clear_session(session_id)
    \/ \E session_id \in SessionIds : delete_session(session_id)
    \/ \E new_model \in ModelNames : switch_model(new_model)
    \/ get_available_models
    \/ \E name \in ModelNames : append_to_returned(name)
    \/ test_connection

FacadeSpec == Init /\ [][FacadeNext]_vars

\* ------------------------------------------- process_message, step by step
\* Nothing in agent.py or perplexity_helper.py takes a lock, so calls made
\* from several threads interleave between the statements of process_message.
\* A step below is a run of statements that touches the shared objects
\* (self.sessions, the ChatSession, PerplexityHelper.model) at one point.
ThreadSessionIds == {"s1"}
ThreadOutcomes == {Completion(OutCheck), Status429, Status500NotJson}

\* The payload send_query posts: self.model as it is read at line 140
payload(user_query, conversation_history, current_model) ==
    send_query(user_query, conversation_history, current_model, NoHttpResponse).request

NoRequest == [model |-> "", messages |-> <<>>]
NoResult == Returned(<<>>, FALSE)

\* the threads that are inside process_message
Running == {t \in Threads : pc[t] \notin {"idle", "returned"}}

\* agent.py:115-118: start_time and session = self.get_or_create_session(id)
enter(t, session_id, user_input) ==
    /\ pc[t] = "idle"
    /\ calls < MaxCalls
    /\ calls' = calls + 1
    /\ stored_messages(sessions) + 2 * (Cardinality(Running) + 1) <= MaxMessages
    /\ sessions' = store_get_or_create(sessions, session_id, now)
    /\ frame' = [frame EXCEPT ![t] =
                    [entered |-> TRUE,
                     session_id |-> session_id, user_input |-> user_input,
                     start_time |-> now, posts |-> 0, request |-> NoRequest,
                     result |-> NoResult, response_type |-> "none", user_index |-> 0,
                     response |-> NoResponse, exc |-> NoException, escaped |-> FALSE]]
    /\ pc' = [pc EXCEPT ![t] = "post"]
    /\ UNCHANGED <<model, now, stdoutEncoding, available_models, last, adapterVars, dtxVars, uiVars>>

\* agent.py:123-126 and perplexity_helper.py:114-163: the history is exported,
\* the payload is built with self.model and posted
post(t) ==
    /\ pc[t] = "post"
    /\ frame' = [frame EXCEPT ![t].request =
                    payload(frame[t].user_input,
                            get_conversation_history(sessions[frame[t].session_id]), model),
                 ![t].posts = @ + 1]
    /\ pc' = [pc EXCEPT ![t] = "wait"]
    /\ UNCHANGED <<agentVars, adapterVars, dtxVars, uiVars>>
    /\ UNCHANGED calls

\* receive, had send_query posted the request again after a failure
receive_retrying(t) ==
    /\ pc[t] = "wait"
    /\ \E http \in ThreadOutcomes :
          LET result == send_query_result(http)
          IN  /\ frame' = [frame EXCEPT ![t].result = result,
                                        ![t].exc = result.exc,
                                        ![t].response_type =
                                            determine_response_type(result.success, result.text)]
              /\ pc' = [pc EXCEPT ![t] = IF result.raised THEN "except"
                                         ELSE IF result.success THEN "append_user"
                                         ELSE IF frame[t].posts < 2 THEN "post"
                                         ELSE "respond_invalid"]
    /\ UNCHANGED <<agentVars, adapterVars, dtxVars, uiVars>>
    /\ UNCHANGED calls

\* perplexity_helper.py:162-188 and agent.py:128-139: the provider call ends,
\* send_query returns or raises, the response is classified
receive(t) ==
    /\ pc[t] = "wait"
    /\ \E http \in ThreadOutcomes :
          LET result == send_query_result(http)
          IN  /\ frame' = [frame EXCEPT ![t].result = result,
                                        ![t].exc = result.exc,
                                        ![t].response_type =
                                            determine_response_type(result.success, result.text)]
              /\ pc' = [pc EXCEPT ![t] = IF result.raised THEN "except"
                                         ELSE IF result.success THEN "append_user"
                                         ELSE "respond_invalid"]
    /\ UNCHANGED <<agentVars, adapterVars, dtxVars, uiVars>>
    /\ UNCHANGED calls

\* agent.py:141-147: session.add_message(user_message)
append_user(t) ==
    /\ pc[t] = "append_user"
    /\ LET sid == frame[t].session_id
       IN  /\ sessions' = [sessions EXCEPT ![sid] =
                              add_message(@, user_message(frame[t].user_input,
                                                          frame[t].start_time, now), now)]
           /\ frame' = [frame EXCEPT ![t].user_index = Len(sessions[sid].messages) + 1]
    /\ pc' = [pc EXCEPT ![t] = "respond"]
    /\ UNCHANGED <<model, now, stdoutEncoding, available_models, last, adapterVars, dtxVars, uiVars>>
    /\ UNCHANGED calls

\* agent.py:150-161: the response is built, with get_current_model() and the
\* session's user message count as they are now, and printed
respond(t) ==
    /\ pc[t] = "respond"
    /\ LET agent_response ==
               AgentResponse(frame[t].result.text, frame[t].response_type,
                             (now - frame[t].start_time) * 1000, model,
                             [session_id |-> frame[t].session_id,
                              message_count |->
                                  get_user_message_count(sessions[frame[t].session_id])])
       IN  IF print_raises(agent_response.content, stdoutEncoding)
           THEN /\ frame' = [frame EXCEPT ![t].exc = Exception("UnicodeEncodeError", MsgEncode)]
                /\ pc' = [pc EXCEPT ![t] = "except"]
           ELSE /\ frame' = [frame EXCEPT ![t].response = agent_response]
                /\ pc' = [pc EXCEPT ![t] = "append_assistant"]
    /\ UNCHANGED <<agentVars, adapterVars, dtxVars, uiVars>>
    /\ UNCHANGED calls

\* agent.py:164-173 and 185: session.add_message(assistant_message), return
append_assistant(t) ==
    /\ pc[t] = "append_assistant"
    /\ sessions' = [sessions EXCEPT ![frame[t].session_id] =
                       add_message(@, assistant_message(frame[t].result.text,
                                                        frame[t].response_type,
                                                        frame[t].response, now), now)]
    /\ pc' = [pc EXCEPT ![t] = "returned"]
    /\ UNCHANGED <<model, now, stdoutEncoding, available_models, last, frame, adapterVars, dtxVars, uiVars>>
    /\ UNCHANGED calls

\* agent.py:174-185: the else branch builds the response and returns it
respond_invalid(t) ==
    /\ pc[t] = "respond_invalid"
    /\ frame' = [frame EXCEPT ![t].response =
                    invalid_branch(frame[t].session_id, sessions[frame[t].session_id],
                                   frame[t].start_time, now, model, frame[t].result.text,
                                   frame[t].response_type).response]
    /\ pc' = [pc EXCEPT ![t] = "returned"]
    /\ UNCHANGED <<agentVars, adapterVars, dtxVars, uiVars>>
    /\ UNCHANGED calls

\* agent.py:187-199: the except clause prints the exception and returns the
\* error response
except_clause(t) ==
    /\ pc[t] = "except"
    /\ IF caught(frame[t].exc) /\ ~print_raises(frame[t].exc.msg, stdoutEncoding)
       THEN frame' = [frame EXCEPT ![t].response =
                         except_block(frame[t].exc, frame[t].start_time, now, model)]
       ELSE frame' = [frame EXCEPT ![t].escaped = TRUE]
    /\ pc' = [pc EXCEPT ![t] = "returned"]
    /\ UNCHANGED <<agentVars, adapterVars, dtxVars, uiVars>>
    /\ UNCHANGED calls

\* the caller has the response and may call again
leave(t) ==
    /\ pc[t] = "returned"
    /\ frame' = [frame EXCEPT ![t] = NoFrame]
    /\ pc' = [pc EXCEPT ![t] = "idle"]
    /\ UNCHANGED <<agentVars, adapterVars, dtxVars, uiVars>>
    /\ UNCHANGED calls

\* agent.py:201-208: clear_session called by some thread while calls are running
clear_during(session_id) ==
    /\ sessions' = IF session_id \in DOMAIN sessions
                   THEN [sessions EXCEPT ![session_id] =
                            [@ EXCEPT !.messages = <<>>, !.last_activity = now]]
                   ELSE sessions
    /\ UNCHANGED <<model, now, stdoutEncoding, available_models, last, threadVars, adapterVars, dtxVars, uiVars>>

\* perplexity_helper.py:190-196: switch_model called by some thread while
\* calls are running
switch_during(new_model) ==
    /\ model' = IF in_list(new_model, available_models) THEN new_model ELSE model
    /\ UNCHANGED <<sessions, now, stdoutEncoding, available_models, last, threadVars, adapterVars, dtxVars, uiVars>>

\* the steps a thread takes by itself once its call is made and the provider
\* call has returned or failed
Run(t) ==
    \/ post(t)
    \/ receive(t)
    \/ append_user(t)
    \/ respond(t)
    \/ append_assistant(t)
    \/ respond_invalid(t)
    \/ except_clause(t)

ThreadNext ==
    \/ \E t \in Threads, session_id \in ThreadSessionIds, user_input \in UserInputs :
           enter(t, session_id, user_input)
    \/ \E t \in Threads : post(t)
    \/ \E t \in Threads : receive(t)
    \/ \E t \in Threads : append_user(t)
    \/ \E t \in Threads : respond(t)
    \/ \E t \in Threads : append_assistant(t)
    \/ \E t \in Threads : respond_invalid(t)
    \/ \E t \in Threads : except_clause(t)
    \/ \E t \in Threads : leave(t)
    \/ \E session_id \in ThreadSessionIds : clear_during(session_id)
    \/ \E new_model \in ModelNames : switch_during(new_model)

ThreadSpec == Init /\ [][ThreadNext]_vars

\* Calls of process_message from several threads, with switch_model called
\* meanwhile
CallNext ==
    \/ \E t \in Threads, session_id \in ThreadSessionIds, user_input \in UserInputs :
           enter(t, session_id, user_input)
    \/ \E t \in Threads : post(t)
    \/ \E t \in Threads : receive(t)
    \/ \E t \in Threads : append_user(t)
    \/ \E t \in Threads : respond(t)
    \/ \E t \in Threads : append_assistant(t)
    \/ \E t \in Threads : respond_invalid(t)
    \/ \E t \in Threads : except_clause(t)
    \/ \E t \in Threads : leave(t)
    \/ \E new_model \in ModelNames : switch_during(new_model)

\* The interpreter runs every thread that can run, and the provider call
\* returns or fails
FairThreadSpec == Init /\ [][CallNext]_vars /\ \A t \in Threads : WF_vars(Run(t))

\* ------------------------------------------- the adapter's pure functions
\* The queries the rewriter is applied to: one or more for each of its four
\* instructions, as typed and in capital letters
QueryTexts ==
    LET typed == {InCrashes, InAssemblyError, InTutorial, InHello, InHowTo, InHowToPart}
    IN  typed \cup {upper(q) : q \in typed}

\* The histories send_query is given: none, and one turn
Histories ==
    {<<>>,
     <<[role |-> "user", content |-> InCrashes],
       [role |-> "assistant", content |-> OutWhichVersion]>>}

\* The calls made on the adapter
AdapterArguments ==
    {[function |-> "_format_user_prompt", user_query |-> q,
      conversation_history |-> <<>>, http |-> NoHttpResponse] : q \in QueryTexts}
    \cup {[function |-> "send_query", user_query |-> q,
           conversation_history |-> h, http |-> http] :
              q \in {InCrashes, InHello}, h \in Histories, http \in HttpOutcomes}

AdapterInit ==
    /\ AgentInit
    /\ stdoutEncoding = "utf-8"
    /\ ThreadsIdle
    /\ DtxInit
    /\ UiIdle
    /\ arguments \in AdapterArguments
    /\ returned = NoReturn

\* perplexity_helper.py:69-103
apply_format_user_prompt ==
    /\ arguments.function = "_format_user_prompt"
    /\ ~returned.done
    /\ returned' = [done |-> TRUE, value |-> format_user_prompt(arguments.user_query)]
    /\ UNCHANGED <<agentVars, threadVars, dtxVars, arguments, uiVars>>

\* perplexity_helper.py:105-188
apply_send_query ==
    /\ arguments.function = "send_query"
    /\ ~returned.done
    /\ returned' = [done |-> TRUE,
                    value |-> send_query(arguments.user_query, arguments.conversation_history,
                                         model, arguments.http)]
    /\ UNCHANGED <<agentVars, threadVars, dtxVars, arguments, uiVars>>

AdapterNext ==
    \/ apply_format_user_prompt
    \/ apply_send_query

AdapterSpec == AdapterInit /\ [][AdapterNext]_vars

\* ---------------------------------------------------------------- DtxHelper
\* Tokens are what the server puts in "message": a JWT with an exp claim
\* (hours on the clock), a JWT without one, or a string that is no JWT.
Jwt(exp) == [kind |-> "jwt", exp |-> exp]
JwtNoExp == [kind |-> "jwt_without_exp", exp |-> 0]
NotJwt == [kind |-> "opaque", exp |-> 0]

\* datetime.timedelta(hours=1)
BufferHours == 1

\* the hours a token the server issues has to live
TokenLifetimes == {1, 3}

\* What requests.post and raise_for_status give: 200 with "message" in the
\* body, 200 without it, a status raise_for_status rejects, no connection
Ok(message) == [kind |-> "ok", message |-> message]
OkNoMessage == [kind |-> "ok", message |-> None]
HttpError == [kind |-> "http_error", message |-> None]
NoConnection == [kind |-> "no_connection", message |-> None]

LoginAnswers == {Ok(Jwt(clock + 3)), OkNoMessage, HttpError, NoConnection}
ExchangeAnswers ==
    {Ok(Jwt(clock + h)) : h \in TokenLifetimes}
    \cup {Ok(JwtNoExp), Ok(NotJwt), OkNoMessage, HttpError, NoConnection}
\* the JSON body the server answers a created form with
FormCreated == [kind |-> "form", exp |-> 0]
FormAnswers == {Ok(FormCreated), HttpError, NoConnection}

\* the exceptions DtxHelper raises
DtxError(tag) == [type |-> "Exception", tag |-> tag]
NotLoggedIn == [type |-> "ValueError", tag |-> ""]
NoDtxError == [type |-> "none", tag |-> ""]

Request(url, authorization, answer) ==
    [url |-> url, authorization |-> authorization, answer |-> answer]

\* DtxHelper._login_to_dtx: what it posts, the login token it leaves, what
\* it raises
login_to_dtx(held_login_token, answer) ==
    [wire |-> <<Request("/user/login", None, answer)>>,
     login_token |-> IF answer.kind = "ok" THEN answer.message ELSE held_login_token,
     exc |-> IF answer.kind = "ok" THEN NoDtxError ELSE DtxError("DTX-LOGIN-ERROR")]

\* DtxHelper._generate_tenant_token
generate_tenant_token(held_login_token, held_tenant_token, answer) ==
    IF held_login_token = None
    THEN [wire |-> <<>>, tenant_token |-> held_tenant_token, exc |-> NotLoggedIn]
    ELSE [wire |-> <<Request("/user/tokenExchange", held_login_token, answer)>>,
          tenant_token |-> IF answer.kind = "ok" THEN answer.message ELSE held_tenant_token,
          exc |-> IF answer.kind = "ok" THEN NoDtxError ELSE DtxError("TENANT-TOKEN-ERROR")]

\* _is_token_expired, had it compared the expiry with now
is_token_expired_unbuffered(token, t) ==
    IF token.kind # "jwt" THEN TRUE
    ELSE IF token.exp = 0 THEN TRUE
    ELSE t >= token.exp

\* DtxHelper._is_token_expired
is_token_expired(token, t) ==
    IF token.kind # "jwt" THEN TRUE
    ELSE IF token.exp = 0 THEN TRUE
    ELSE t + BufferHours >= token.exp

\* DtxHelper.init_session: login, then the exchange unless the login raised
init_session(held_login_token, held_tenant_token, login_answer, exchange_answer) ==
    LET l == login_to_dtx(held_login_token, login_answer)
        g == generate_tenant_token(l.login_token, held_tenant_token, exchange_answer)
    IN  IF l.exc # NoDtxError
        THEN [wire |-> l.wire, login_token |-> l.login_token,
              tenant_token |-> held_tenant_token, exc |-> l.exc]
        ELSE [wire |-> l.wire \o g.wire, login_token |-> l.login_token,
              tenant_token |-> g.tenant_token, exc |-> g.exc]

\* DtxHelper.get_tenant_token: ret is self.tenant_token as it is after the
\* refresh, if there was one
get_tenant_token_result(held_login_token, held_tenant_token, t, login_answer, exchange_answer) ==
    IF held_tenant_token = None \/ is_token_expired(held_tenant_token, t)
    THEN LET i == init_session(held_login_token, held_tenant_token, login_answer,
                               exchange_answer)
         IN  [wire |-> i.wire, login_token |-> i.login_token,
              tenant_token |-> i.tenant_token, exc |-> i.exc,
              ret |-> IF i.exc = NoDtxError THEN i.tenant_token ELSE None]
    ELSE [wire |-> <<>>, login_token |-> held_login_token,
          tenant_token |-> held_tenant_token, exc |-> NoDtxError,
          ret |-> held_tenant_token]

\* DtxHelper.create_form
create_form_result(held_login_token, held_tenant_token, t, login_answer, exchange_answer, form_answer) ==
    LET g == get_tenant_token_result(held_login_token, held_tenant_token, t, login_answer,
                                     exchange_answer)
    IN  IF g.exc # NoDtxError THEN g
        ELSE [wire |-> g.wire \o <<Request("/forms", g.ret, form_answer)>>,
              login_token |-> g.login_token, tenant_token |-> g.tenant_token,
              exc |-> IF form_answer.kind = "ok" THEN NoDtxError
                      ELSE DtxError("CREATE-FORM-ERROR"),
              ret |-> IF form_answer.kind = "ok" THEN form_answer.message ELSE None]

\* what the helper held when the call was made
Held == [login_token |-> login_token, tenant_token |-> tenant_token, clock |-> clock]

\* datetime.now() moves on by an hour
DtxTick ==
    /\ clock < MaxClock
    /\ clock' = clock + 1
    /\ UNCHANGED <<login_token, tenant_token, wire, outcome>>
    /\ UNCHANGED <<agentVars, threadVars, adapterVars, uiVars>>

get_tenant_token ==
    \E login_answer \in LoginAnswers, exchange_answer \in ExchangeAnswers :
        LET r == get_tenant_token_result(login_token, tenant_token, clock, login_answer,
                                         exchange_answer)
        IN  /\ login_token' = r.login_token
            /\ tenant_token' = r.tenant_token
            /\ wire' = r.wire
            /\ outcome' = [op |-> "get_tenant_token", exc |-> r.exc, ret |-> r.ret,
                           pre |-> Held]
            /\ UNCHANGED clock
            /\ UNCHANGED <<agentVars, threadVars, adapterVars, uiVars>>

create_form ==
    \E login_answer \in LoginAnswers, exchange_answer \in ExchangeAnswers,
       form_answer \in FormAnswers :
        LET r == create_form_result(login_token, tenant_token, clock, login_answer,
                                    exchange_answer, form_answer)
        IN  /\ login_token' = r.login_token
            /\ tenant_token' = r.tenant_token
            /\ wire' = r.wire
            /\ outcome' = [op |-> "create_form", exc |-> r.exc, ret |-> r.ret,
                           pre |-> Held]
            /\ UNCHANGED clock
            /\ UNCHANGED <<agentVars, threadVars, adapterVars, uiVars>>

DtxSpecInit ==
    /\ AgentInit
    /\ model = available_models[1]
    /\ stdoutEncoding = "utf-8"
    /\ ThreadsIdle
    /\ AdapterIdle
    /\ DtxInit
    /\ UiIdle

DtxNext ==
    \/ DtxTick
    \/ get_tenant_token
    \/ create_form

DtxSpec == DtxSpecInit /\ [][DtxNext]_vars

\* -------------------------------------------------------- the Streamlit UI
\* streamlit_ui.py is a script that Streamlit runs from the top on every
\* interaction of the browser session: st.session_state and the values of
\* keyed widgets outlive a run, everything else is built again.  st.rerun()
\* abandons the run and starts the next one.  PERPLEXITY_API_KEY is set.
\* render_chat_interface: the message shown when process_message raises
SorryPrefix ==
    <<"S", "o", "r", "r", "y", ",", " ", "I", " ", "e", "n", "c", "o", "u", "n", "t", "e", "r", "e", "d", " ", "a", "n", " ", "e", "r", "r", "o", "r", ":", " ">>

\* The user picks a name in the "Model" selectbox of a page that is shown or
\* is about to be built again, which starts a run
select_model(name) ==
    /\ script.at \in {"done", "main"}
    /\ session_state.model_selector # Unset
    /\ in_list(name, available_models)
    /\ name # session_state.model_selector
    /\ session_state' = [session_state EXCEPT !.model_selector = name]
    /\ script' = [at |-> "main", prompt |-> <<>>, reset |-> FALSE]
    /\ UNCHANGED <<agentVars, threadVars, adapterVars, dtxVars>>

\* The user sends a prompt through st.chat_input, which starts a run
submit_prompt(prompt) ==
    /\ script.at = "done"
    /\ Len(session_state.messages) + 2 <= MaxMessages
    /\ script' = [at |-> "main", prompt |-> prompt, reset |-> FALSE]
    /\ UNCHANGED session_state
    /\ UNCHANGED <<agentVars, threadVars, adapterVars, dtxVars>>

\* The user presses "Reset Chat", which starts a run
press_reset ==
    /\ script.at = "done"
    /\ Len(session_state.messages) > 0
    /\ script' = [at |-> "main", prompt |-> <<>>, reset |-> TRUE]
    /\ UNCHANGED session_state
    /\ UNCHANGED <<agentVars, threadVars, adapterVars, dtxVars>>

\* main() up to render_sidebar: initialize_session_state, then create_agent
\* builds SolidWorksAgentCore(api_key) with the default model and puts the
\* saved ChatSession back under the session id
create_agent ==
    /\ script.at = "main"
    /\ LET session_id == IF session_state.session_id = Unset THEN "s1"
                         ELSE session_state.session_id
           perplexity == PerplexityHelper("sonar-pro")
       IN  /\ ~perplexity.raised
           /\ session_state' = [session_state EXCEPT !.session_id = session_id]
           /\ model' = perplexity.model
           /\ available_models' = perplexity.available_models
           /\ sessions' = IF session_state.current_session_data # NoSession
                          THEN [x \in {session_id} |-> session_state.current_session_data]
                          ELSE [x \in {} |-> 0]
    /\ script' = [script EXCEPT !.at = "sidebar"]
    /\ UNCHANGED <<now, stdoutEncoding, last>>
    /\ UNCHANGED <<threadVars, adapterVars, dtxVars>>

\* render_sidebar: the selectbox gives the value kept under its key, or the
\* current model when none is kept; a value other than the current model is
\* switched to and the run is abandoned for a new one; "Reset Chat" clears,
\* saves and starts a new run; otherwise main() goes on to the chat interface.
\* A prompt sent with the abandoned run reaches the next run or is dropped.
render_sidebar ==
    /\ script.at = "sidebar"
    /\ LET current_model == model
           options == available_models
           selected_model == IF session_state.model_selector = Unset
                             THEN IF in_list(current_model, options) THEN current_model
                                  ELSE options[1]
                             ELSE session_state.model_selector
           session_id == session_state.session_id
           cleared == IF session_id \in DOMAIN sessions
                      THEN [sessions EXCEPT ![session_id] =
                               [@ EXCEPT !.messages = <<>>, !.last_activity = now]]
                      ELSE sessions
       IN  IF selected_model # current_model /\ in_list(selected_model, available_models)
           THEN /\ model' = selected_model
                /\ session_state' = [session_state EXCEPT !.model_selector = selected_model]
                /\ \E prompt \in {script.prompt, <<>>} :
                       script' = [at |-> "main", prompt |-> prompt, reset |-> FALSE]
                /\ UNCHANGED sessions
           ELSE IF script.reset
           THEN /\ sessions' = cleared
                /\ session_state' =
                       [session_state EXCEPT
                           !.model_selector = selected_model,
                           !.messages = <<>>,
                           !.current_session_data =
                               IF session_id \in DOMAIN cleared THEN cleared[session_id]
                               ELSE @]
                /\ script' = [at |-> "main", prompt |-> <<>>, reset |-> FALSE]
                /\ UNCHANGED model
           ELSE /\ session_state' = [session_state EXCEPT !.model_selector = selected_model]
                /\ script' = [script EXCEPT !.at = "chat"]
                /\ UNCHANGED <<sessions, model>>
    /\ UNCHANGED <<now, stdoutEncoding, available_models, last>>
    /\ UNCHANGED <<threadVars, adapterVars, dtxVars>>

\* render_chat_interface, the end of the run: a prompt is shown and kept,
\* process_message is called, the content of its Response is shown and kept
\* and the session is saved, or the message of what it raised is.  The saved
\* ChatSession is the object the agent works on, so what process_message did
\* to it is in st.session_state whether or not it was saved again.
render_chat_interface ==
    /\ script.at = "chat"
    /\ IF script.prompt = <<>>
       THEN UNCHANGED <<sessions, session_state>>
       ELSE \E http \in TurnOutcomes :
               LET session_id == session_state.session_id
                   store == store_get_or_create(sessions, session_id, now)
                   session == store[session_id]
                   b == try_block(session_id, script.prompt, session, now, now, model, http,
                                  stdoutEncoding)
                   r == process_message_result(session_id, script.prompt, session, now, now,
                                               model, http, stdoutEncoding)
                   shown == IF r.escaped THEN SorryPrefix \o b.exc.msg
                            ELSE r.response.content
                   stored == [store EXCEPT ![session_id] = r.session]
               IN  /\ sessions' = stored
                   /\ session_state' =
                          [session_state EXCEPT
                              !.messages = @ \o <<[role |-> "user", content |-> script.prompt],
                                                  [role |-> "assistant", content |-> shown]>>,
                              !.current_session_data =
                                  IF r.escaped /\ @ = NoSession THEN @
                                  ELSE stored[session_id]]
    /\ script' = [at |-> "done", prompt |-> <<>>, reset |-> FALSE]
    /\ UNCHANGED <<model, now, stdoutEncoding, available_models, last>>
    /\ UNCHANGED <<threadVars, adapterVars, dtxVars>>

UiNext ==
    \/ \E name \in ModelNames : select_model(name)
    \/ \E prompt \in UserInputs : submit_prompt(prompt)
    \/ press_reset
    \/ create_agent
    \/ render_sidebar
    \/ render_chat_interface

\* Streamlit runs the script to its end or to st.rerun(); the user acts or
\* does not.  The last condition is on the step from the chat interface to
\* the end of the run, which render_chat_interface alone takes.
UiSpec ==
    /\ Init
    /\ [][UiNext]_vars
    /\ WF_vars(create_agent)
    /\ WF_vars(render_sidebar)
    /\ WF_script(script.at = "chat"
                    /\ script' = [at |-> "done", prompt |-> <<>>, reset |-> FALSE])

\* -------------------------------------------------------------- properties
\* The messages of the session the last process_message call worked on, as
\* get_or_create_session gave it and as the store holds it now
TurnBefore == last.call.session.messages
TurnAfter == sessions[last.sid].messages

\* the turn's two messages follow what the session held before
TurnAppended ==
    /\ Len(TurnAfter) = Len(TurnBefore) + 2
    /\ SubSeq(TurnAfter, 1, Len(TurnBefore)) = TurnBefore
    /\ TurnAfter[Len(TurnBefore) + 1].role = "user"
    /\ TurnAfter[Len(TurnBefore) + 1].content = last.arg
    /\ TurnAfter[Len(TurnBefore) + 2].role = "assistant"
    /\ TurnAfter[Len(TurnBefore) + 2].content = last.call.adapter.text

\* C1: when send_query reports success, process_message makes the session
\* two messages longer, the user message with the raw text and then the
\* assistant message with the provider's text; when it reports failure the
\* session is no longer than before.
C1_GrowsByTwoOrZero ==
    (last.op = "process_message" /\ ~last.call.adapter.raised) =>
        IF last.call.adapter.success
        THEN TurnAppended
        ELSE Len(TurnAfter) = Len(TurnBefore)

\* C2: when process_message returns, on every path, the session holds both
\* messages of the turn or neither of them.
C2_AllOrNothing ==
    last.op = "process_message" => (TurnAfter = TurnBefore \/ TurnAppended)

\* C3: no failure leaves process_message: every call returns a Response with
\* one of the response types, and with type error when send_query raised.
C3_NoFailureEscapes ==
    last.op = "process_message" =>
        /\ ~last.ret.escaped
        /\ last.ret.response.response_type \in ResponseTypes
        /\ last.call.adapter.raised => last.ret.response.response_type = "error"

C3_Witness ==
    /\ last.op = "process_message"
    /\ last.call.adapter.raised
    /\ ~last.ret.escaped
    /\ last.ret.response.response_type = "error"

\* C4: when send_query reports failure, the session is what it was before
\* the call (messages, created_at and last_activity), and the Response has
\* type error and the adapter's message as content.
C4_FailureLeavesSession ==
    (last.op = "process_message" /\ ~last.call.adapter.raised /\ ~last.call.adapter.success) =>
        /\ sessions[last.sid] = last.call.session
        /\ last.pre.exists \/ last.call.session.messages = <<>>
        /\ last.ret.response.response_type = "error"
        /\ last.ret.response.content = last.call.adapter.text

C4_Witness ==
    /\ last.op = "process_message"
    /\ ~last.call.adapter.raised /\ ~last.call.adapter.success
    /\ last.pre.exists
    /\ Len(sessions[last.sid].messages) >= 2
    /\ sessions[last.sid].last_activity < last.call.start_time
    /\ last.ret.response.content = RateLimitText

\* C5: no session stores a message of role system, and the history a session
\* exports has no entry of role system.
C5_NoSystemMessage ==
    \A sid \in DOMAIN sessions :
        /\ \A i \in 1..Len(sessions[sid].messages) : sessions[sid].messages[i].role # "system"
        /\ LET history == get_conversation_history(sessions[sid])
           IN  \A i \in 1..Len(history) : history[i].role # "system"

C5_Witness ==
    /\ last.op = "process_message"
    /\ Len(sessions[last.sid].messages) >= 4
    /\ Len(get_conversation_history(sessions[last.sid])) = Len(sessions[last.sid].messages)

\* C6: get_or_create_session on an unknown id registers an empty session and
\* returns it; on a registered id it returns the registered session as it
\* is, history and timestamps included, and changes no session.
C6_GetOrCreateIdempotent ==
    [][\A sid \in SessionIds :
          get_or_create_session(sid) =>
              IF sid \in DOMAIN sessions
              THEN sessions' = sessions /\ last'.ret = sessions[sid]
              ELSE /\ sessions'[sid].messages = <<>>
                   /\ last'.ret = sessions'[sid]
                   /\ \A x \in DOMAIN sessions : sessions'[x] = sessions[x]]_vars

C6_Witness ==
    /\ last.op = "get_or_create_session"
    /\ last.pre.exists
    /\ last.pre.message_count >= 2
    /\ Len(last.ret.messages) = last.pre.message_count
    /\ last.ret.created_at < now

\* a text holds one of the context-soliciting phrases, whatever the case of
\* its letters
ContextSoliciting(text) ==
    \E k \in 1..Len(context_indicators) :
        LET phrase == context_indicators[k]
        IN  \E i \in 0..(Len(text) - Len(phrase)) :
                \A j \in 1..Len(phrase) : lower_char(text[i + j]) = lower_char(phrase[j])

\* C7: the response type of a turn is decided by the adapter's success flag
\* and text alone: error on failure whatever the text, context_request on
\* success with a text that holds a context-soliciting phrase in any case,
\* success otherwise; no Response has the type validation_error.
C7_Classification ==
    last.op = "process_message" =>
        /\ last.ret.response.response_type # "validation_error"
        /\ ~last.call.adapter.raised =>
               last.call.response_type =
                   IF ~last.call.adapter.success THEN "error"
                   ELSE IF ContextSoliciting(last.call.adapter.text) THEN "context_request"
                   ELSE "success"
        /\ last.call.exc = NoException =>
               last.ret.response.response_type = last.call.response_type

C7_Witness ==
    /\ last.op = "process_message"
    /\ last.call.adapter.success
    /\ last.call.adapter.text = OutWhichVersion
    /\ ~contains(context_indicators[5], last.call.adapter.text)
    /\ last.ret.response.response_type = "context_request"

\* C8: switch_model with a name outside available_models returns false and
\* leaves the model; with a name of the list it returns true and installs
\* it; nothing else changes the model, and get_current_model, every Response
\* and every summary report the current model.
C8_SwitchModel ==
    /\ [][\A m \in ModelNames :
             switch_model(m) =>
                 IF m \in {available_models[i] : i \in 1..Len(available_models)}
                 THEN model' = m /\ last'.ret = TRUE
                 ELSE model' = model /\ last'.ret = FALSE]_vars
    /\ [][model' # model =>
             (last'.op = "switch_model" /\ last'.ret = TRUE /\ model' = last'.arg)]_vars
    /\ [](last.op = "get_current_model" => last.ret = model)
    /\ []((last.op = "process_message" /\ ~last.ret.escaped) =>
             last.ret.response.model_used = model)
    /\ []((last.op = "get_session_summary" /\ last.pre.exists) =>
             last.ret.current_model = model)

C8_Witness ==
    /\ last.op = "process_message"
    /\ ~last.ret.escaped
    /\ last.ret.response.model_used = model
    /\ \E i \in 1..Len(TurnBefore) :
           /\ TurnBefore[i].role = "assistant"
           /\ TurnBefore[i].metadata.model_used # model

\* C9: clear_session on a registered id returns true, keeps the id
\* registered and empties the session with last_activity at the time of the
\* clear or later; the summary asked for next reports message_count 0,
\* user_questions 0 and that last_activity.
C9_ClearThenSummary ==
    /\ [][\A sid \in SessionIds :
             (clear_session(sid) /\ sid \in DOMAIN sessions) =>
                 /\ last'.ret = TRUE
                 /\ sid \in DOMAIN sessions'
                 /\ sessions'[sid].last_activity >= now]_vars
    /\ [][\A sid \in SessionIds :
             (get_session_summary(sid) /\ last.op = "clear_session" /\ last.sid = sid
                 /\ last.ret = TRUE) =>
                 /\ last'.ret.session_id = sid
                 /\ last'.ret.message_count = 0
                 /\ last'.ret.user_questions = 0
                 /\ last'.ret.last_activity = isoformat(sessions[sid].last_activity)]_vars

C9_Witness ==
    /\ last.op = "clear_session"
    /\ last.ret = TRUE
    /\ last.pre.message_count >= 2
    /\ sessions[last.sid].messages = <<>>
    /\ sessions[last.sid].last_activity > sessions[last.sid].created_at

\* the number of assistant messages: the successful turns since the session
\* was created or cleared
SuccessfulTurns(messages) == Len(SelectSeq(messages, LAMBDA msg : msg.role = "assistant"))

\* C10: for a session with k successful turns, process_message sends one
\* system message, the 2k stored messages in order as role and content,
\* user and assistant in turn, and one user message with the rewritten query.
C10_RequestMessages ==
    last.op = "process_message" =>
        LET stored == TurnBefore
            k == SuccessfulTurns(stored)
            sent == last.call.request.messages
        IN  /\ Len(stored) = 2 * k
            /\ Len(sent) = 2 * k + 2
            /\ sent[1] = [role |-> "system", content |-> create_system_prompt]
            /\ \A i \in 1..(2 * k) :
                   sent[i + 1] = [role |-> IF i % 2 = 1 THEN "user" ELSE "assistant",
                                  content |-> stored[i].content]
            /\ sent[2 * k + 2] = [role |-> "user", content |-> format_user_prompt(last.arg)]
            /\ sent[2 * k + 2].content # last.arg

\* True when the first sequence is the beginning of the second
IsPrefix(a, b) == Len(a) <= Len(b) /\ SubSeq(b, 1, Len(a)) = a

\* C13: every response process_message returns has metadata holding the
\* session id and the session's count of user messages: the count before the
\* call plus one after a successful turn, the count before the call after a
\* failed one, on the adapter-failure and the unexpected-failure path alike.
C13_ResponseMetadata ==
    (last.op = "process_message" /\ ~last.ret.escaped) =>
        LET metadata == last.ret.response.metadata
            before == get_user_message_count(last.call.session)
        IN  /\ "session_id" \in DOMAIN metadata
            /\ "message_count" \in DOMAIN metadata
            /\ metadata.session_id = last.sid
            /\ metadata.message_count =
                   IF last.ret.response.response_type = "error" THEN before ELSE before + 1

\* C14: a step that is neither clear_session nor delete_session of a
\* registered id leaves the id registered and its messages as they were or
\* with messages appended; create_session of that id is such a step.
C14_HistoryOnlyGrows ==
    [][\A sid \in SessionIds :
          (sid \in DOMAIN sessions /\ ~clear_session(sid) /\ ~delete_session(sid)) =>
              /\ sid \in DOMAIN sessions'
              /\ IsPrefix(sessions[sid].messages, sessions'[sid].messages)]_vars

\* the thread has appended the user message of its turn and not yet the
\* assistant message
BetweenAppends(t) == pc[t] \in {"respond", "append_assistant"}

\* a step of the thread's call that reads or writes the session's messages
Touches(t) ==
    \/ post(t)
    \/ append_user(t)
    \/ respond(t)
    \/ append_assistant(t)
    \/ respond_invalid(t)

\* C11: operations on one session id exclude each other: when a thread
\* appends the assistant message of its turn, the user message of that turn
\* is the last message of the session, and while a thread is between the two
\* appends of its turn no other call on that id reads or writes the session.
C11_MutualExclusion ==
    [][\A t \in Threads :
          /\ append_assistant(t) =>
                 frame[t].user_index = Len(sessions[frame[t].session_id].messages)
          /\ BetweenAppends(t) =>
                 /\ ~clear_during(frame[t].session_id)
                 /\ \A u \in Threads \ {t} :
                        (frame[u].entered /\ frame[u].session_id = frame[t].session_id) =>
                            ~Touches(u)]_vars

\* C12: a process_message call works with one model value: the model of the
\* request it posted is the model_used of the response it returns and of the
\* assistant message it stores, whatever switch_model does meanwhile.
C12_OneModelPerCall ==
    /\ [](\A t \in Threads :
             (pc[t] = "returned" /\ ~frame[t].escaped) =>
                 frame[t].response.model_used = frame[t].request.model)
    /\ [][\A t \in Threads :
             append_assistant(t) =>
                 LET messages == sessions'[frame[t].session_id].messages
                 IN  messages[Len(messages)].metadata.model_used = frame[t].request.model]_vars

\* C18: a process_message call posts one request to the provider, never a
\* second one, and ends by returning a response: success or context_request
\* with both messages appended, or error; once the call is made and the
\* provider call returns or fails, the call returns.
C18_OneRequestThenReturn ==
    /\ [](\A t \in Threads :
             /\ frame[t].entered => frame[t].posts <= 1
             /\ pc[t] = "returned" =>
                    /\ frame[t].posts = 1
                    /\ ~frame[t].escaped
                    /\ frame[t].response.response_type \in {"success", "context_request", "error"})
    /\ [][\A t \in Threads :
             /\ append_assistant(t) => frame[t].response.response_type
                                           \in {"success", "context_request"}
             /\ (pc[t] # "returned" /\ pc'[t] = "returned") =>
                    \/ append_assistant(t)
                    \/ frame'[t].response.response_type = "error"]_vars
    /\ \A t \in Threads : (pc[t] = "post") ~> (pc[t] = "returned")

C18_Witness ==
    \E t \in Threads :
        /\ pc[t] = "returned"
        /\ frame[t].posts = 1
        /\ frame[t].response.response_type = "success"
        /\ \E u \in Threads \ {t} :
               /\ pc[u] = "returned"
               /\ frame[u].result.raised
               /\ frame[u].response.response_type = "error"

\* C15: send_query turns every outcome of the provider call into a text and
\* a success flag and raises nothing: success exactly for a 2xx answer whose
\* body holds a completion, the text then being the completion; the fixed
\* messages for 401 and 429; a text and no success for every other status
\* whatever its body, every network failure and every malformed body.
C15_SendQueryTotal ==
    (arguments.function = "send_query" /\ returned.done) =>
        LET http == arguments.http
            result == returned.value.result
            completed == /\ http.kind = "response"
                         /\ http.status \in 200..299
                         /\ http.body = "completion"
        IN  /\ ~result.raised
            /\ result.success <=> completed
            /\ completed => result.text = http.content
            /\ (http.kind = "response" /\ http.status = 401) => result.text = InvalidKeyText
            /\ (http.kind = "response" /\ http.status = 429) => result.text = RateLimitText
            /\ ~completed => Len(result.text) > 0

\* a text holds one of the terms of a list, whatever the case of its letters
HoldsTerm(list, text) ==
    \E k \in 1..Len(list) :
        \E i \in 0..(Len(text) - Len(list[k])) :
            \A j \in 1..Len(list[k]) : lower_char(text[i + j]) = lower_char(list[k][j])

\* the instruction the first applicable rule of the rewriter gives
RuleInstruction(text) ==
    IF HoldsTerm(vague_indicators, text) /\ ~HoldsTerm(specific_indicators, text)
    THEN ContextInstruction
    ELSE IF HoldsTerm(failure_words, text) THEN TroubleshootingInstruction
    ELSE IF HoldsTerm(howto_words, text) THEN StepByStepInstruction
    ELSE GenericInstruction

\* C16: the rewritten query is the user's text as typed followed by one
\* instruction: context gathering when a vague term and no specificity term
\* is present, else troubleshooting on a failure term, else step-by-step on a
\* how-to term, else the generic one; terms match as substrings in any case,
\* so the same query in capital letters gets the same instruction.
C16_RewriteRules ==
    (arguments.function = "_format_user_prompt" /\ returned.done) =>
        /\ returned.value = arguments.user_query \o RuleInstruction(arguments.user_query)
        /\ RuleInstruction(upper(arguments.user_query)) = RuleInstruction(arguments.user_query)

C16_Witness ==
    /\ arguments.function = "_format_user_prompt"
    /\ arguments.user_query = upper(InAssemblyError)
    /\ returned.done
    /\ returned.value = arguments.user_query \o TroubleshootingInstruction

\* C17 as stated: the rewritten "how to create a weldment" includes the
\* step-by-step instruction of rule 3.
C17_HowToStepByStep ==
    (arguments.function = "_format_user_prompt" /\ arguments.user_query = InHowTo
        /\ returned.done) =>
            contains(StepByStepInstruction, returned.value)

\* C17: "how to create a weldment" holds the vague term "how to" and no
\* specificity term, so the rewritten query is the text followed by the
\* context-gathering instruction of rule 1, not the step-by-step one.
C17_HowToContext ==
    (arguments.function = "_format_user_prompt" /\ arguments.user_query = InHowTo
        /\ returned.done) =>
            /\ HoldsTerm(howto_words, InHowTo)
            /\ ~HoldsTerm(failure_words, InHowTo)
            /\ ~HoldsTerm(specific_indicators, InHowTo)
            /\ returned.value = InHowTo \o ContextInstruction
            /\ ~contains(StepByStepInstruction, returned.value)

C17_Witness ==
    /\ arguments.function = "_format_user_prompt"
    /\ arguments.user_query = InHowTo
    /\ returned.done
    /\ contains(ContextInstruction, returned.value)

\* a held tenant token calls for a refresh: none is held, its expiry cannot
\* be decoded, or its expiry is within one hour of now
Stale(token, t) ==
    \/ token = None
    \/ token.kind # "jwt"
    \/ token.exp - t <= 1

\* the login of the refresh gave a login token
LoginGaveToken == wire[1].answer.kind = "ok" /\ wire[1].answer.message # None

StageTag(url) ==
    CASE url = "/user/login" -> "DTX-LOGIN-ERROR"
      [] url = "/user/tokenExchange" -> "TENANT-TOKEN-ERROR"
      [] OTHER -> "CREATE-FORM-ERROR"

\* C20: a create_form call that fails raises an error tagged with the stage
\* that failed, the last one it attempted (login, token exchange or form
\* creation); every request before the last one succeeded, and a request
\* that fails makes the call fail.
C20_TaggedFailures ==
    outcome.op = "create_form" =>
        /\ outcome.exc # NoDtxError =>
               /\ Len(wire) >= 1
               /\ outcome.exc.tag = StageTag(wire[Len(wire)].url)
        /\ \A i \in 1..(Len(wire) - 1) : wire[i].answer.kind = "ok"
        /\ (\E i \in 1..Len(wire) : wire[i].answer.kind # "ok") => outcome.exc # NoDtxError

\* C21: for an id that is not registered, get_session and
\* get_session_summary return the absent value, clear_session and
\* delete_session return false, and none of them changes the store;
\* delete_session on a registered id returns true, removes that id and leaves
\* every other session as it was, and get_session called next on the deleted
\* id returns the absent value.
C21_MissAndDelete ==
    /\ [][\A id \in SessionIds :
             (id \notin DOMAIN sessions) =>
                 /\ get_session(id) => (last'.ret = NoSession /\ sessions' = sessions)
                 /\ get_session_summary(id) =>
                        (last'.ret = NoSummary /\ sessions' = sessions)
                 /\ clear_session(id) => (last'.ret = FALSE /\ sessions' = sessions)
                 /\ delete_session(id) => (last'.ret = FALSE /\ sessions' = sessions)]_vars
    /\ [][\A id \in SessionIds :
             (id \in DOMAIN sessions /\ delete_session(id)) =>
                 /\ last'.ret = TRUE
                 /\ DOMAIN sessions' = DOMAIN sessions \ {id}
                 /\ \A other \in DOMAIN sessions \ {id} :
                        sessions'[other] = sessions[other]]_vars
    /\ [][\A id \in SessionIds :
             (last.op = "delete_session" /\ last.sid = id /\ last.ret = TRUE
                  /\ get_session(id)) =>
                 last'.ret = NoSession]_vars

\* a registered session has just been deleted while another one holds
\* messages
C21_Witness ==
    /\ last.op = "delete_session"
    /\ last.ret = TRUE
    /\ last.pre.exists
    /\ last.sid \notin DOMAIN sessions
    /\ \E other \in DOMAIN sessions : Len(sessions[other].messages) > 0

\* C22: created_at of a session object never changes; last_activity is set
\* to the current time by every append and by clear_session and changes in
\* no other step; so created_at <= last_activity always holds and
\* last_activity never decreases.  create_session on a registered id puts a
\* new object under the id, so that step is not a step of one object.
C22_Timestamps ==
    /\ [](\A id \in DOMAIN sessions :
             sessions[id].created_at <= sessions[id].last_activity)
    /\ [][\A id \in DOMAIN sessions \cap DOMAIN sessions' :
             ~create_session(id) =>
                 /\ sessions'[id].created_at = sessions[id].created_at
                 /\ sessions'[id].last_activity >= sessions[id].last_activity
                 /\ Len(sessions'[id].messages) > Len(sessions[id].messages) =>
                        sessions'[id].last_activity = now'
                 /\ clear_session(id) => sessions'[id].last_activity = now'
                 /\ sessions'[id].last_activity # sessions[id].last_activity =>
                        \/ Len(sessions'[id].messages) > Len(sessions[id].messages)
                        \/ clear_session(id)]_vars

\* a session that was created at one time has had a turn appended at a later
\* time
C22_Witness ==
    \E id \in DOMAIN sessions :
        /\ Len(sessions[id].messages) > 0
        /\ sessions[id].created_at < sessions[id].last_activity
        /\ last.op = "process_message"
        /\ last.sid = id

\* the allow-list as the constructor writes it
AllowList == <<"sonar-pro", "sonar">>

\* C23: the current model of a constructed agent is always a name of the
\* fixed allow-list: the constructor yields no agent for another name,
\* switch_model installs no other name, and the allow-list stays as
\* constructed whatever a caller does with the list get_available_models
\* handed out.
C23_ModelInAllowList ==
    /\ in_list(model, AllowList)
    /\ available_models = AllowList

\* a caller has been handed the list and has appended an unlisted name to it,
\* on an agent whose model is the second name of the allow-list
C23_Witness ==
    /\ last.op = "get_available_models"
    /\ in_list("gpt-4", last.ret.items)
    /\ ~in_list("gpt-4", available_models)
    /\ model = AllowList[2]

\* C24: test_connection sends exactly one query through send_query, returns
\* true only when send_query returned success and a text without the
\* failure mark, returns a message with false in every other case, a raise
\* of send_query included, and changes neither a session nor the model.
C24_TestConnection ==
    /\ [](last.op = "test_connection" =>
             /\ Len(last.call.queries) = 1
             /\ last.ret.ok <=>
                    /\ ~last.call.adapter.raised
                    /\ last.call.adapter.success
                    /\ \A i \in 1..Len(last.call.adapter.text) :
                           last.call.adapter.text[i] # "U+274C"
             /\ Len(last.ret.message) > 0)
    /\ [][last'.op = "test_connection" => (sessions' = sessions /\ model' = model)]_vars

\* send_query reported success with a text that holds the failure mark and
\* test_connection returned false, on an agent that holds a conversation
C24_Witness ==
    /\ last.op = "test_connection"
    /\ last.call.adapter.success
    /\ ~last.ret.ok
    /\ \E id \in DOMAIN sessions : Len(sessions[id].messages) > 0

\* user, assistant, user, assistant, ...: an even length, as many user
\* messages as half the length, a user message at every odd place
Alternates(messages) ==
    /\ Len(messages) % 2 = 0
    /\ 2 * Cardinality({i \in 1..Len(messages) : messages[i].role = "user"}) = Len(messages)
    /\ \A i \in 1..Len(messages) :
           messages[i].role = IF i % 2 = 1 THEN "user" ELSE "assistant"

\* the step is a process_message call in which a failure was raised after
\* the user message was appended and before the assistant message was
RaisedBetweenAppends ==
    /\ last'.op = "process_message"
    /\ last' # last
    /\ last'.call.exc.type = "UnicodeEncodeError"

\* C25: with calls one after the other, a session whose messages alternate
\* user, assistant from the first message on still does so after every step
\* in which no failure is raised between the two appends, sessions start
\* empty, and the assistant message of a turn is stored right behind the
\* user message of that turn.
C25_Alternation ==
    /\ [][\A id \in DOMAIN sessions' :
             (/\ id \in DOMAIN sessions => Alternates(sessions[id].messages)
              /\ ~(RaisedBetweenAppends /\ last'.sid = id)) =>
                 Alternates(sessions'[id].messages)]_vars
    /\ [][(/\ last'.op = "process_message"
            /\ last' # last
            /\ ~RaisedBetweenAppends
            /\ last'.call.adapter.success) =>
               LET before == last'.call.session.messages
                   after == sessions'[last'.sid].messages
               IN  /\ Len(after) = Len(before) + 2
                   /\ after[Len(before) + 1].role = "user"
                   /\ after[Len(before) + 1].content = last'.arg
                   /\ after[Len(before) + 2].role = "assistant"
                   /\ after[Len(before) + 2].content = last'.call.adapter.text]_vars

\* a session holds two whole turns, the second one just stored
C25_Witness ==
    /\ last.op = "process_message"
    /\ last.call.adapter.success
    /\ Len(sessions[last.sid].messages) = 4
    /\ Alternates(sessions[last.sid].messages)

\* C26: a process_message, clear_session, delete_session or create_session
\* call on one id leaves the session of every other id registered or
\* unregistered as it was, with the same messages, created_at and
\* last_activity, however the provider answered.
C26_OtherSessionsUntouched ==
    [][\A A \in SessionIds : \A B \in SessionIds \ {A} :
          (/\ last' # last
           /\ last'.sid = A
           /\ last'.op \in {"process_message", "clear_session", "delete_session",
                             "create_session"}) =>
              /\ (B \in DOMAIN sessions') <=> (B \in DOMAIN sessions)
              /\ B \in DOMAIN sessions =>
                     /\ sessions'[B].messages = sessions[B].messages
                     /\ sessions'[B].created_at = sessions[B].created_at
                     /\ sessions'[B].last_activity = sessions[B].last_activity]_vars

\* a session was created anew under one id at a later time while the other
\* id holds a conversation
C26_Witness ==
    /\ last.op = "create_session"
    /\ last.pre.exists
    /\ \E B \in DOMAIN sessions \ {last.sid} :
           /\ Len(sessions[B].messages) > 0
           /\ sessions[B].created_at < sessions[last.sid].created_at

\* C27: every token get_tenant_token returns, and so every bearer credential
\* create_form attaches to its form request, is a token that is held, decodes
\* and expires more than one hour after the time of the call, also when
\* init_session has just acquired it.
C27_ReturnedTokenFresh ==
    /\ (outcome.op = "get_tenant_token" /\ outcome.exc = NoDtxError) =>
           ~Stale(outcome.ret, outcome.pre.clock)
    /\ outcome.op = "create_form" =>
           \A i \in 1..Len(wire) :
               wire[i].url = "/forms" => ~Stale(wire[i].authorization, outcome.pre.clock)

\* C28: once the user has selected, in the sidebar, an allowed model other
\* than the default, some script run reaches the chat interface with the
\* agent's current model equal to the selected model.
C28_SelectionTakesEffect ==
    (script.at = "main" /\ session_state.model_selector = "sonar")
        ~> (script.at = "chat" /\ model = session_state.model_selector)

====
